---- MODULE Spec2Model ----
(***************************************************************************)
(* GeoQuiz_AI ("Geo Genius"): the answer matcher of src/App.tsx            *)
(* (normalize, levenshteinDistance, handleAnswerSubmit) and the quiz's      *)
(* state sequencing over the asynchronous fetches of                       *)
(* services/geminiService (src/unnamed/part_000).                          *)
(*                                                                         *)
(* A JavaScript string is a sequence of one-character strings.  A nullable *)
(* value is a sequence of length at most one: Null for null, Some(v)       *)
(* otherwise.                                                              *)
(***************************************************************************)
EXTENDS Integers, Sequences, FiniteSets, TLC

VARIABLES
    gameStatus,                 \* useState<GameStatus>
    currentQuestion,            \* useState<Question | null>
    nextQuestion,               \* useState<Question | null>
    userAnswer,                 \* useState('')
    isCorrect,                  \* useState<boolean | null>
    spellingMistake,            \* useState(false)
    hint,                       \* useState<string | null>
    info,                       \* useState<CountryInfo | null>
    countryImage,               \* useState<string | null>
    sources,                    \* useState<GroundingChunk[]>
    error,                      \* useState<string | null>
    prefetchedInfoPromiseRef,   \* useRef: promise of getCountryInfo
    prefetchedImagePromiseRef,  \* useRef: promise chained on the info promise
    prefetchedHintPromiseRef,   \* useRef: promise of getHint
    nextFetches,                \* getRandomCountry() calls of moveToAnswerScreen in flight
    fetchCount,                 \* number of getRandomCountry() calls made so far
    questionCount,              \* number of Question objects generateNewQuestion has made
    shownIds,                   \* the objects that became currentQuestion, in order
    callFn,                     \* pure-function harness: the function applied
    callArgs,                   \* pure-function harness: its arguments
    callRet                     \* pure-function harness: its result, Null before the call

appVars == <<gameStatus, currentQuestion, nextQuestion, userAnswer, isCorrect,
             spellingMistake, hint, info, countryImage, sources, error,
             prefetchedInfoPromiseRef, prefetchedImagePromiseRef,
             prefetchedHintPromiseRef, nextFetches, fetchCount,
                   questionCount, shownIds>>
callVars == <<callFn, callArgs, callRet>>
vars == <<appVars, callVars>>

Null == <<>>
Some(v) == <<v>>
Val(o) == o[1]

(***************************************************************************)
(* Bounds of the model.                                                    *)
(***************************************************************************)
MaxStrLen == 4      \* longest raw string handed to normalize
MaxLevLen == 4      \* longest string handed to levenshteinDistance
MaxAnswerLen == 4   \* longest typed answer handed to handleAnswerSubmit
MaxFetches == 4     \* getRandomCountry() calls in one run of the application

(***************************************************************************)
(* Characters.                                                             *)
(***************************************************************************)
\* the character class of the first replace of normalize ("GRAVE" stands for
\* the grave accent, which the lexer of TLA+ does not take inside a string)
PUNCTUATION == {".", ",", "/", "#", "!", "$", "%", "^", "&", "*", ";", ":",
                "{", "}", "=", "-", "_", "GRAVE", "~", "(", ")"}
\* \s of the second replace, and what trim removes (those of them used here)
WHITESPACE == {" ", "\t", "\n"}

\* String.prototype.toLowerCase on one character
LowerChar(c) ==
    CASE c = "A" -> "a"
      [] c = "B" -> "b"
      [] c = "C" -> "c"
      [] OTHER -> c

\* all strings over alphabet of length at most n
StringsUpTo(alphabet, n) == UNION {[1..k -> alphabet] : k \in 0..n}

(***************************************************************************)
(* normalize (a local of handleAnswerSubmit)                               *)
(***************************************************************************)
toLowerCase(str) == [i \in 1..Len(str) |-> LowerChar(str[i])]

\* the first replace: every character of PUNCTUATION is removed
stripPunctuation(str) == SelectSeq(str, LAMBDA c : c \notin PUNCTUATION)

\* the second replace, of /\s+/g: every maximal run of whitespace becomes one space
RECURSIVE collapseWhitespace(_)
collapseWhitespace(str) ==
    IF str = <<>> THEN <<>>
    ELSE IF Head(str) \in WHITESPACE
         THEN IF Len(str) > 1 /\ str[2] \in WHITESPACE
              THEN collapseWhitespace(Tail(str))
              ELSE <<" ">> \o collapseWhitespace(Tail(str))
         ELSE <<Head(str)>> \o collapseWhitespace(Tail(str))

RECURSIVE trimStart(_)
trimStart(str) ==
    IF str # <<>> /\ Head(str) \in WHITESPACE THEN trimStart(Tail(str)) ELSE str

RECURSIVE trimEnd(_)
trimEnd(str) ==
    IF str # <<>> /\ str[Len(str)] \in WHITESPACE
    THEN trimEnd(SubSeq(str, 1, Len(str) - 1))
    ELSE str

\* String.prototype.trim
trim(str) == trimEnd(trimStart(str))

\* (mutant) the trim moved to the front of the chain
normalize_trimfirst(str) ==
    collapseWhitespace(stripPunctuation(toLowerCase(trim(str))))

normalize(str) ==
    trim(collapseWhitespace(stripPunctuation(toLowerCase(str))))

(***************************************************************************)
(* levenshteinDistance: the dynamic-programming table dp[0..m][0..n]       *)
(***************************************************************************)
Min2(x, y) == IF x <= y THEN x ELSE y
Min3(x, y, z) == Min2(x, Min2(y, z))

\* the inner loop of row i, from column j on; row holds dp[i][0..j-1] so far
RECURSIVE levFillRow(_, _, _, _, _, _)
levFillRow(a, b, i, j, prev, row) ==
    IF j > Len(b) THEN row
    ELSE LET cost == IF a[i] = b[j] THEN 0 ELSE 1
             cell == Min3(prev[j + 1] + 1, row[j] + 1, prev[j] + cost)
         IN  levFillRow(a, b, i, j + 1, prev, Append(row, cell))

\* the outer loop from row i on; prev is dp[i-1][0..n] (index j+1 holds dp[i-1][j])
RECURSIVE levFillTable(_, _, _, _)
levFillTable(a, b, i, prev) ==
    IF i > Len(a) THEN prev
    ELSE levFillTable(a, b, i + 1, levFillRow(a, b, i, 1, prev, <<i>>))

\* (mutant) the loop that sets dp[0][j] = j left out: row 0 stays all 0
levenshteinDistance_noinit(a, b) ==
    levFillTable(a, b, 1, [j \in 1..(Len(b) + 1) |-> 0])[Len(b) + 1]

levenshteinDistance(a, b) ==
    levFillTable(a, b, 1, [j \in 1..(Len(b) + 1) |-> j - 1])[Len(b) + 1]


(***************************************************************************)
(* Data: countries and questions                                           *)
(***************************************************************************)
\* the country list behind getRandomCountry (constants.ts is not part of the
\* sources; two countries stand for it)
COUNTRIES ==
    { [name |-> <<"A", "b">>, capital |-> << <<"A", "b", "b", "a">> >>],
      [name |-> <<"B", "a", ".", "b">>,
       capital |-> << <<"a", "b", " ", "b", "a">>, <<"B", "a", "b">> >>] }

QuestionTypes == {"ask_capital", "ask_country"}

\* generateNewQuestion, its two Math.random() draws given as arguments:
\* questionType, and the index k of the capital put in the question
generateNewQuestion(country, questionType, k) ==
    [country |-> country,
     type |-> questionType,
     capitalInQuestion |->
        IF questionType = "ask_country" THEN Some(country.capital[k]) ELSE Null]

\* the object generateNewQuestion returns: a new object on every call, told
\* apart from every other by id
Identified(question, id) == question @@ [id |-> id]

\* every question generateNewQuestion can build for a country
QuestionsOf(country) ==
    {generateNewQuestion(country, "ask_capital", 1)} \cup
    {generateNewQuestion(country, "ask_country", k) :
        k \in 1..Len(country.capital)}

(***************************************************************************)
(* The matcher: the locals of handleAnswerSubmit                           *)
(***************************************************************************)
correctAnswers(question) ==
    IF question.type = "ask_capital"
    THEN question.country.capital
    ELSE <<question.country.name>>

normalizedCorrectAnswers(question) ==
    [i \in 1..Len(correctAnswers(question)) |->
        normalize(correctAnswers(question)[i])]

\* (mutant) only the first accepted entry is compared
perfectMatch_firstonly(answer, question) ==
    normalizedCorrectAnswers(question)[1] = normalize(answer)

\* normalizedCorrectAnswers.includes(normalizedUserAnswer)
perfectMatch(answer, question) ==
    \E i \in 1..Len(correctAnswers(question)) :
        normalizedCorrectAnswers(question)[i] = normalize(answer)

\* (mutant) the length guard is >= 3 instead of > 3
isVeryClose_offbyone(answer, question) ==
    /\ ~perfectMatch(answer, question)
    /\ \E i \in 1..Len(correctAnswers(question)) :
          LET ans == normalizedCorrectAnswers(question)[i]
          IN  levenshteinDistance(normalize(answer), ans) <= 2 /\ Len(ans) >= 3

\* (mutant) the length guard left out
isVeryClose_noguard(answer, question) ==
    /\ ~perfectMatch(answer, question)
    /\ \E i \in 1..Len(correctAnswers(question)) :
          LET ans == normalizedCorrectAnswers(question)[i]
          IN  levenshteinDistance(normalize(answer), ans) <= 2

\* (mutant) the tolerance is < 2 instead of <= 2
isVeryClose_strict(answer, question) ==
    /\ ~perfectMatch(answer, question)
    /\ \E i \in 1..Len(correctAnswers(question)) :
          LET ans == normalizedCorrectAnswers(question)[i]
          IN  levenshteinDistance(normalize(answer), ans) < 2 /\ Len(ans) > 3

\* !perfectMatch && normalizedCorrectAnswers.some(ans => ... <= 2 && ans.length > 3)
isVeryClose(answer, question) ==
    /\ ~perfectMatch(answer, question)
    /\ \E i \in 1..Len(correctAnswers(question)) :
          LET ans == normalizedCorrectAnswers(question)[i]
          IN  levenshteinDistance(normalize(answer), ans) <= 2 /\ Len(ans) > 3

\* (mutant) the length guard applied to the exact match as well
correct_lengthguarded(answer, question) ==
    \E i \in 1..Len(correctAnswers(question)) :
        LET ans == normalizedCorrectAnswers(question)[i]
        IN  levenshteinDistance(normalize(answer), ans) <= 2 /\ Len(ans) > 3

\* const correct = perfectMatch || isVeryClose
correct(answer, question) ==
    perfectMatch(answer, question) \/ isVeryClose(answer, question)

(***************************************************************************)
(* services/geminiService: what each fetch resolves to.  The services      *)
(* catch every network error, so their promises are always fulfilled;      *)
(* "failed" records that the catch branch produced the value.              *)
(***************************************************************************)
HintFallback == "Sorry, I couldn't fetch a hint right now. Please try again."

\* a promise held in a ref
PendingPromise(question) ==
    [question |-> question, state |-> "pending", value |-> Null, failed |-> FALSE]

FulfilledPromise(question, value, failed) ==
    [question |-> question, state |-> "fulfilled", value |-> Some(value),
     failed |-> failed]

\* getHint: response.text, or the fallback sentence of its catch
getHintResult(question, ok) ==
    IF ok THEN [text |-> "hint", about |-> Some(question)]
    ELSE [text |-> HintFallback, about |-> Null]

\* getCountryInfo: {info, sources} parsed from the response, or
\* {info: null, sources: []} of its catch; photoPrompt may be missing from
\* the parsed object
getCountryInfoResult(question, outcome) ==
    IF outcome = "fail"
    THEN [info |-> Null, sources |-> <<>>]
    ELSE [info |-> Some([about |-> question.country.name,
                         photoPrompt |-> (outcome = "ok")]),
          sources |-> << [about |-> question.country.name] >>]

\* getCountryImage: the first inlineData of the response, null when there is
\* none, null of its catch
getCountryImageResult(question, outcome) ==
    IF outcome = "data" THEN Some([about |-> question.country.name]) ELSE Null

\* getRandomCountry: a country, or null of its catch (lines 118-142)
RandomCountryResults == {Null} \cup {Some(c) : c \in COUNTRIES}


(***************************************************************************)
(* App: the handlers.  A handler that awaits is two actions: the part up   *)
(* to the await, and the continuation once the awaited promise is settled. *)
(* gameStatus tells which handler is suspended: loading_question is        *)
(* setupNewQuestion, loading_hint is handleHintRequest and loading_info is *)
(* moveToAnswerScreen.                                                     *)
(***************************************************************************)
\* renderContent shows the quiz form
QuizViewShown ==
    /\ error = Null
    /\ gameStatus \in {"playing", "loading_hint"}
    /\ currentQuestion # Null

\* renderContent shows the answer screen
AnswerViewShown ==
    /\ error = Null
    /\ gameStatus = "answered"
    /\ currentQuestion # Null

\* the controls of the quiz form are disabled while gameStatus is loading_hint
QuizControlsEnabled == QuizViewShown /\ gameStatus # "loading_hint"

\* (mutant) promises already held in the refs are kept instead of replaced
prefetchAnswerDetails_keepheld(question) ==
    /\ prefetchedInfoPromiseRef' =
          IF prefetchedInfoPromiseRef # Null THEN prefetchedInfoPromiseRef
          ELSE Some(PendingPromise(question))
    /\ prefetchedImagePromiseRef' =
          IF prefetchedImagePromiseRef # Null THEN prefetchedImagePromiseRef
          ELSE Some(PendingPromise(question))
    /\ prefetchedHintPromiseRef' =
          IF prefetchedHintPromiseRef # Null THEN prefetchedHintPromiseRef
          ELSE Some(PendingPromise(question))

\* prefetchAnswerDetails(question), question not null: getCountryInfo and
\* getHint are called, the image promise is chained on the info promise
prefetchAnswerDetails(question) ==
    /\ prefetchedInfoPromiseRef' = Some(PendingPromise(question))
    /\ prefetchedImagePromiseRef' = Some(PendingPromise(question))
    /\ prefetchedHintPromiseRef' = Some(PendingPromise(question))

\* the eight resets that open setupNewQuestion (userAnswer, isCorrect,
\* spellingMistake, hint, info, countryImage, sources, error)
SetupResets ==
    /\ isCorrect' = Null
    /\ spellingMistake' = FALSE
    /\ userAnswer' = <<>>
    /\ hint' = Null
    /\ info' = Null
    /\ countryImage' = Null
    /\ sources' = <<>>
    /\ error' = Null

\* (mutant) setNextQuestion(null) left out
setupNewQuestion_keepnext ==
    /\ SetupResets
    /\ IF nextQuestion # Null
       THEN /\ currentQuestion' = nextQuestion
            /\ prefetchAnswerDetails(Val(nextQuestion))
            /\ gameStatus' = "playing"
            /\ shownIds' = Append(shownIds, Val(nextQuestion).id)
            /\ UNCHANGED <<nextQuestion, nextFetches, fetchCount, questionCount>>
       ELSE /\ fetchCount < MaxFetches
            /\ gameStatus' = "loading_question"
            /\ fetchCount' = fetchCount + 1
            /\ UNCHANGED <<currentQuestion, nextQuestion, nextFetches,
                           prefetchedInfoPromiseRef, prefetchedImagePromiseRef,
                           prefetchedHintPromiseRef, questionCount, shownIds>>

\* setupNewQuestion up to its await (or to its end, when nextQuestion is held)
setupNewQuestion ==
    /\ SetupResets
    /\ IF nextQuestion # Null
       THEN /\ currentQuestion' = nextQuestion
            /\ prefetchAnswerDetails(Val(nextQuestion))
            /\ nextQuestion' = Null
            /\ gameStatus' = "playing"
            /\ shownIds' = Append(shownIds, Val(nextQuestion).id)
            /\ UNCHANGED <<nextFetches, fetchCount, questionCount>>
       ELSE /\ fetchCount < MaxFetches
            /\ gameStatus' = "loading_question"
            /\ fetchCount' = fetchCount + 1
            /\ UNCHANGED <<currentQuestion, nextQuestion, nextFetches,
                           prefetchedInfoPromiseRef, prefetchedImagePromiseRef,
                           prefetchedHintPromiseRef, questionCount, shownIds>>

\* useEffect(() => { setupNewQuestion(); }, []): the initial load
MountEffect ==
    /\ gameStatus = "loading_question"
    /\ fetchCount = 0
    /\ setupNewQuestion
    /\ UNCHANGED callVars

\* the Next Question button of the answer screen
ClickNextQuestion ==
    /\ AnswerViewShown
    /\ setupNewQuestion
    /\ UNCHANGED callVars

\* setupNewQuestion after await getRandomCountry()
SetupContinue ==
    /\ gameStatus = "loading_question"
    /\ fetchCount > 0
    /\ \E randomCountry \in RandomCountryResults :
          IF randomCountry = Null
          THEN /\ error' = Some("Failed to start a new round. Please refresh the page.")
               /\ gameStatus' = "error"
               /\ UNCHANGED <<currentQuestion, prefetchedInfoPromiseRef,
                              prefetchedImagePromiseRef, prefetchedHintPromiseRef,
                              questionCount, shownIds>>
          ELSE \E q \in QuestionsOf(Val(randomCountry)) :
                  LET newQuestion == Identified(q, questionCount + 1)
                  IN  /\ questionCount' = questionCount + 1
                      /\ currentQuestion' = Some(newQuestion)
                      /\ shownIds' = Append(shownIds, newQuestion.id)
                      /\ prefetchAnswerDetails(newQuestion)
                      /\ gameStatus' = "playing"
                      /\ UNCHANGED error
    /\ UNCHANGED <<nextQuestion, userAnswer, isCorrect, spellingMistake, hint,
                   info, countryImage, sources, nextFetches, fetchCount>>
    /\ UNCHANGED callVars

\* onChange of the answer input: setUserAnswer(e.target.value)
OnChange(value) ==
    /\ QuizControlsEnabled
    /\ userAnswer' = value
    /\ UNCHANGED <<gameStatus, currentQuestion, nextQuestion, isCorrect,
                   spellingMistake, hint, info, countryImage, sources, error,
                   prefetchedInfoPromiseRef, prefetchedImagePromiseRef,
                   prefetchedHintPromiseRef, nextFetches, fetchCount,
                   questionCount, shownIds>>
    /\ UNCHANGED callVars

\* handleHintRequest up to its await.  The refs are set whenever a question
\* is (prefetchAnswerDetails runs with every setCurrentQuestion), so the
\* awaited promise is the prefetched one.
handleHintRequest ==
    /\ QuizControlsEnabled
    /\ prefetchedHintPromiseRef # Null
    /\ gameStatus' = "loading_hint"
    /\ UNCHANGED <<currentQuestion, nextQuestion, userAnswer, isCorrect,
                   spellingMistake, hint, info, countryImage, sources, error,
                   prefetchedInfoPromiseRef, prefetchedImagePromiseRef,
                   prefetchedHintPromiseRef, nextFetches, fetchCount,
                   questionCount, shownIds>>
    /\ UNCHANGED callVars

\* (mutant) the finally block with setGameStatus('playing') left out
HintContinue_nofinally ==
    /\ gameStatus = "loading_hint"
    /\ prefetchedHintPromiseRef # Null
    /\ Val(prefetchedHintPromiseRef).state = "fulfilled"
    /\ hint' = Some(Val(Val(prefetchedHintPromiseRef).value))
    /\ UNCHANGED <<gameStatus, currentQuestion, nextQuestion, userAnswer,
                   isCorrect, spellingMistake, info, countryImage, sources,
                   error, prefetchedInfoPromiseRef, prefetchedImagePromiseRef,
                   prefetchedHintPromiseRef, nextFetches, fetchCount,
                   questionCount, shownIds>>
    /\ UNCHANGED callVars

\* handleHintRequest after await prefetchedHintPromiseRef.current
HintContinue ==
    /\ gameStatus = "loading_hint"
    /\ prefetchedHintPromiseRef # Null
    /\ Val(prefetchedHintPromiseRef).state = "fulfilled"
    /\ hint' = Some(Val(Val(prefetchedHintPromiseRef).value))
    /\ gameStatus' = "playing"
    /\ UNCHANGED <<currentQuestion, nextQuestion, userAnswer, isCorrect,
                   spellingMistake, info, countryImage, sources, error,
                   prefetchedInfoPromiseRef, prefetchedImagePromiseRef,
                   prefetchedHintPromiseRef, nextFetches, fetchCount,
                   questionCount, shownIds>>
    /\ UNCHANGED callVars

\* (mutant) the background fetch of the next question left out
moveToAnswerScreen_noprefetch ==
    /\ gameStatus' = "loading_info"
    /\ UNCHANGED <<fetchCount, nextFetches, questionCount, shownIds>>

\* moveToAnswerScreen up to its await: the next question is fetched in the
\* background and gameStatus becomes loading_info
moveToAnswerScreen ==
    /\ fetchCount < MaxFetches
    /\ fetchCount' = fetchCount + 1
    /\ nextFetches' = nextFetches + 1
    /\ gameStatus' = "loading_info"
    /\ UNCHANGED <<questionCount, shownIds>>

\* the Submit button (or Enter) of the quiz form
handleAnswerSubmit ==
    /\ QuizControlsEnabled
    /\ trim(userAnswer) # <<>>
    /\ isCorrect' = Some(correct(userAnswer, Val(currentQuestion)))
    /\ spellingMistake' = (correct(userAnswer, Val(currentQuestion))
                             /\ ~perfectMatch(userAnswer, Val(currentQuestion)))
    /\ moveToAnswerScreen
    /\ UNCHANGED <<currentQuestion, nextQuestion, userAnswer, hint, info,
                   countryImage, sources, error, prefetchedInfoPromiseRef,
                   prefetchedImagePromiseRef, prefetchedHintPromiseRef>>
    /\ UNCHANGED callVars

\* (mutant) setUserAnswer('') left out
handleGiveUp_keepanswer ==
    /\ QuizControlsEnabled
    /\ isCorrect' = Some(FALSE)
    /\ spellingMistake' = FALSE
    /\ moveToAnswerScreen
    /\ UNCHANGED <<currentQuestion, nextQuestion, userAnswer, hint, info,
                   countryImage, sources, error, prefetchedInfoPromiseRef,
                   prefetchedImagePromiseRef, prefetchedHintPromiseRef>>
    /\ UNCHANGED callVars

\* the I give up button of the quiz form
handleGiveUp ==
    /\ QuizControlsEnabled
    /\ isCorrect' = Some(FALSE)
    /\ spellingMistake' = FALSE
    /\ userAnswer' = <<>>
    /\ moveToAnswerScreen
    /\ UNCHANGED <<currentQuestion, nextQuestion, hint, info, countryImage,
                   sources, error, prefetchedInfoPromiseRef,
                   prefetchedImagePromiseRef, prefetchedHintPromiseRef>>
    /\ UNCHANGED callVars

\* moveToAnswerScreen after await Promise.all([infoPromise, imagePromise])
AnswerScreenContinue ==
    /\ gameStatus = "loading_info"
    /\ prefetchedInfoPromiseRef # Null
    /\ prefetchedImagePromiseRef # Null
    /\ Val(prefetchedInfoPromiseRef).state = "fulfilled"
    /\ Val(prefetchedImagePromiseRef).state = "fulfilled"
    /\ info' = Val(Val(prefetchedInfoPromiseRef).value).info
    /\ sources' = Val(Val(prefetchedInfoPromiseRef).value).sources
    /\ countryImage' = Val(Val(prefetchedImagePromiseRef).value)
    /\ gameStatus' = "answered"
    /\ UNCHANGED <<currentQuestion, nextQuestion, userAnswer, isCorrect,
                   spellingMistake, hint, error, prefetchedInfoPromiseRef,
                   prefetchedImagePromiseRef, prefetchedHintPromiseRef,
                   nextFetches, fetchCount,
                   questionCount, shownIds>>
    /\ UNCHANGED callVars

\* the .then of the getRandomCountry() of moveToAnswerScreen:
\* setNextQuestion(generateNewQuestion(country)) when a country came back
NextQuestionFetched ==
    /\ nextFetches > 0
    /\ nextFetches' = nextFetches - 1
    /\ \E country \in RandomCountryResults :
          IF country = Null
          THEN UNCHANGED <<nextQuestion, questionCount>>
          ELSE \E q \in QuestionsOf(Val(country)) :
                  /\ questionCount' = questionCount + 1
                  /\ nextQuestion' = Some(Identified(q, questionCount + 1))
    /\ UNCHANGED <<gameStatus, currentQuestion, userAnswer, isCorrect,
                   spellingMistake, hint, info, countryImage, sources, error,
                   prefetchedInfoPromiseRef, prefetchedImagePromiseRef,
                   prefetchedHintPromiseRef, fetchCount, shownIds>>
    /\ UNCHANGED callVars

(***************************************************************************)
(* The network: the fetches started by prefetchAnswerDetails settle        *)
(***************************************************************************)
\* the generateContent call of getHint returns or throws
HintFetched ==
    /\ prefetchedHintPromiseRef # Null
    /\ Val(prefetchedHintPromiseRef).state = "pending"
    /\ \E ok \in BOOLEAN :
          LET q == Val(prefetchedHintPromiseRef).question
          IN  prefetchedHintPromiseRef' =
                  Some(FulfilledPromise(q, getHintResult(q, ok), ~ok))
    /\ UNCHANGED <<gameStatus, currentQuestion, nextQuestion, userAnswer,
                   isCorrect, spellingMistake, hint, info, countryImage,
                   sources, error, prefetchedInfoPromiseRef,
                   prefetchedImagePromiseRef, nextFetches, fetchCount,
                   questionCount, shownIds>>
    /\ UNCHANGED callVars

\* the generateContent call of getCountryInfo returns or throws; the .then
\* chained on it calls getCountryImage when info.photoPrompt is set and
\* resolves the image promise with null otherwise
InfoFetched ==
    /\ prefetchedInfoPromiseRef # Null
    /\ Val(prefetchedInfoPromiseRef).state = "pending"
    /\ \E outcome \in {"ok", "ok_no_prompt", "fail"} :
          LET q == Val(prefetchedInfoPromiseRef).question
          IN  /\ prefetchedInfoPromiseRef' =
                    Some(FulfilledPromise(q, getCountryInfoResult(q, outcome),
                                          outcome = "fail"))
              /\ prefetchedImagePromiseRef' =
                    IF outcome = "ok" THEN prefetchedImagePromiseRef
                    ELSE Some(FulfilledPromise(q, Null, FALSE))
    /\ UNCHANGED <<gameStatus, currentQuestion, nextQuestion, userAnswer,
                   isCorrect, spellingMistake, hint, info, countryImage,
                   sources, error, prefetchedHintPromiseRef, nextFetches,
                   fetchCount, questionCount, shownIds>>
    /\ UNCHANGED callVars

\* the generateContent call of getCountryImage returns or throws
ImageFetched ==
    /\ prefetchedInfoPromiseRef # Null
    /\ prefetchedImagePromiseRef # Null
    /\ Val(prefetchedInfoPromiseRef).state = "fulfilled"
    /\ Val(prefetchedImagePromiseRef).state = "pending"
    /\ \E outcome \in {"data", "no_data", "fail"} :
          LET q == Val(prefetchedImagePromiseRef).question
          IN  prefetchedImagePromiseRef' =
                  Some(FulfilledPromise(q, getCountryImageResult(q, outcome),
                                        outcome = "fail"))
    /\ UNCHANGED <<gameStatus, currentQuestion, nextQuestion, userAnswer,
                   isCorrect, spellingMistake, hint, info, countryImage,
                   sources, error, prefetchedInfoPromiseRef,
                   prefetchedHintPromiseRef, nextFetches, fetchCount,
                   questionCount, shownIds>>
    /\ UNCHANGED callVars

(***************************************************************************)
(* The application                                                         *)
(***************************************************************************)
\* what the player can type (a model input)
AppAnswers ==
    { <<>>, <<".">>, <<"a", "b">>, <<"a", "b", "b">> }

CallIdle ==
    /\ callFn = "none"
    /\ callArgs = <<>>
    /\ callRet = Null

Init ==
    /\ gameStatus = "loading_question"
    /\ currentQuestion = Null
    /\ nextQuestion = Null
    /\ userAnswer = <<>>
    /\ isCorrect = Null
    /\ spellingMistake = FALSE
    /\ hint = Null
    /\ info = Null
    /\ countryImage = Null
    /\ sources = <<>>
    /\ error = Null
    /\ prefetchedInfoPromiseRef = Null
    /\ prefetchedImagePromiseRef = Null
    /\ prefetchedHintPromiseRef = Null
    /\ nextFetches = 0
    /\ fetchCount = 0
    /\ questionCount = 0
    /\ shownIds = <<>>
    /\ CallIdle

Next ==
    \/ MountEffect
    \/ ClickNextQuestion
    \/ SetupContinue
    \/ \E value \in AppAnswers : OnChange(value)
    \/ handleHintRequest
    \/ HintContinue
    \/ handleAnswerSubmit
    \/ handleGiveUp
    \/ AnswerScreenContinue
    \/ NextQuestionFetched
    \/ HintFetched
    \/ InfoFetched
    \/ ImageFetched

Spec == Init /\ [][Next]_vars

\* every started fetch of a hint, of country info, of an image and of the
\* country of a new round settles, and the event loop resumes a handler
\* whose awaited promises are settled
FetchesSettle ==
    /\ WF_vars(SetupContinue)
    /\ WF_vars(HintFetched)
    /\ WF_vars(InfoFetched)
    /\ WF_vars(ImageFetched)
    /\ WF_vars(HintContinue)
    /\ WF_vars(AnswerScreenContinue)

SpecLive == Init /\ [][Next]_vars /\ FetchesSettle


(***************************************************************************)
(* renderContent: what is on the screen, as a set of elements              *)
(***************************************************************************)
Text(what) == [kind |-> "text", what |-> what]
Spinner == [kind |-> "spinner", what |-> "LoadingSpinner"]
Image == [kind |-> "img", what |-> "countryImage"]
Control(what) == [kind |-> "control", what |-> what]

NoInfoText == "No additional information available."

renderQuizView ==
    IF currentQuestion = Null THEN {Spinner}
    ELSE {Text("questionText"), Control("answer"), Control("Submit"),
          Control("I give up")}
         \cup (IF hint # Null THEN {Text(Val(hint).text)} ELSE {})
         \cup (IF gameStatus = "loading_hint" THEN {Spinner}
               ELSE {Control("I need a hint")})

renderAnswerView ==
    IF currentQuestion = Null THEN {}
    ELSE {Text("resultText"), Control("Next Question")}
         \cup (IF spellingMistake THEN {Text("spellingMistakeText")} ELSE {})
         \cup (IF isCorrect # Some(TRUE) THEN {Text("correctAnswerText")} ELSE {})
         \cup (IF info # Null
               THEN {Text("summary"), Text("facts"), Control("map")}
                    \cup (IF countryImage # Null THEN {Image} ELSE {Spinner})
               ELSE {Text(NoInfoText)})
         \cup (IF sources # <<>> THEN {Text("sources")} ELSE {})

renderContent ==
    IF error # Null THEN {Text(Val(error))}
    ELSE CASE gameStatus \in {"playing", "loading_hint"} -> renderQuizView
           [] gameStatus = "answered" -> renderAnswerView
           [] gameStatus = "loading_info" ->
                 {Spinner, Text("Putting together some cool info...")}
           [] gameStatus = "loading_question" ->
                 {Spinner, Text("Fetching a new challenge...")}
           [] gameStatus = "error" -> {}
           [] OTHER -> {Spinner}

(***************************************************************************)
(* The pure functions on their own: Init draws the arguments, the action   *)
(* applies the function.                                                   *)
(***************************************************************************)
NormalizeAlphabet == {"a", "B", ".", "-", " ", "\t"}
LevAlphabet == {"a", "b"}

AppIdle ==
    /\ gameStatus = "loading_question"
    /\ currentQuestion = Null
    /\ nextQuestion = Null
    /\ userAnswer = <<>>
    /\ isCorrect = Null
    /\ spellingMistake = FALSE
    /\ hint = Null
    /\ info = Null
    /\ countryImage = Null
    /\ sources = <<>>
    /\ error = Null
    /\ prefetchedInfoPromiseRef = Null
    /\ prefetchedImagePromiseRef = Null
    /\ prefetchedHintPromiseRef = Null
    /\ nextFetches = 0
    /\ fetchCount = 0
    /\ questionCount = 0
    /\ shownIds = <<>>

InitFn ==
    /\ AppIdle
    /\ callRet = Null
    /\ \/ /\ callFn = "normalize"
          /\ callArgs \in {<<s>> : s \in StringsUpTo(NormalizeAlphabet, MaxStrLen)}
       \/ /\ callFn = "levenshteinDistance"
          /\ callArgs \in StringsUpTo(LevAlphabet, MaxLevLen)
                            \X StringsUpTo(LevAlphabet, MaxLevLen)

CallNormalize ==
    /\ callFn = "normalize"
    /\ callRet = Null
    /\ callRet' = Some(normalize(callArgs[1]))
    /\ UNCHANGED <<callFn, callArgs, appVars>>

CallLevenshteinDistance ==
    /\ callFn = "levenshteinDistance"
    /\ callRet = Null
    /\ callRet' = Some(levenshteinDistance(callArgs[1], callArgs[2]))
    /\ UNCHANGED <<callFn, callArgs, appVars>>

NextFn ==
    \/ CallNormalize
    \/ CallLevenshteinDistance

SpecFn == InitFn /\ [][NextFn]_vars

(***************************************************************************)
(* The matcher on its own: the quiz form is open on any question, with any *)
(* typed answer, and Submit is pressed.                                    *)
(***************************************************************************)
AnswerAlphabet == {"a", "b", "A", ".", " "}

\* the ground-truth strings of the questions; normalized lengths 2, 3, 4, 5, 4
AcceptedStrings ==
    { <<"A", "b">>, <<"b", "a", "b">>, <<"A", "b", "b", "a">>,
      <<"a", "b", " ", "b", "a">>, <<"B", ".", "a", "a", "b">> }

\* capital lists of one or two capitals
CapitalLists ==
    {<<x>> : x \in AcceptedStrings} \cup (AcceptedStrings \X AcceptedStrings)

MatchQuestions ==
    {generateNewQuestion([name |-> <<"A", "b">>, capital |-> c], "ask_capital", 1) :
        c \in CapitalLists}
    \cup
    {generateNewQuestion([name |-> n, capital |-> << <<"A", "b">> >>], "ask_country", 1) :
        n \in AcceptedStrings}

InitMatch ==
    /\ gameStatus = "playing"
    /\ currentQuestion \in {Some(Identified(q, 1)) : q \in MatchQuestions}
    /\ nextQuestion = Null
    /\ userAnswer \in StringsUpTo(AnswerAlphabet, MaxAnswerLen)
    /\ isCorrect = Null
    /\ spellingMistake = FALSE
    /\ hint = Null
    /\ info = Null
    /\ countryImage = Null
    /\ sources = <<>>
    /\ error = Null
    /\ prefetchedInfoPromiseRef = Some(PendingPromise(Val(currentQuestion)))
    /\ prefetchedImagePromiseRef = Some(PendingPromise(Val(currentQuestion)))
    /\ prefetchedHintPromiseRef = Some(PendingPromise(Val(currentQuestion)))
    /\ nextFetches = 0
    /\ fetchCount = 1
    /\ questionCount = 1
    /\ shownIds = <<1>>
    /\ CallIdle

NextMatch == handleAnswerSubmit

SpecMatch == InitMatch /\ [][NextMatch]_vars


(***************************************************************************)
(* Properties of the matcher (SpecMatch, SpecFn)                           *)
(***************************************************************************)
\* a submission has been evaluated: in SpecMatch, loading_info is entered by
\* handleAnswerSubmit alone
Evaluated == gameStatus = "loading_info" /\ isCorrect # Null

\* the normalized candidate and the normalized accepted entries of the state
Candidate == normalize(userAnswer)
Accepted == LET q == Val(currentQuestion)
            IN  {normalize(correctAnswers(q)[i]) : i \in 1..Len(correctAnswers(q))}

\* an accepted entry the close-match rule lets through for the candidate
Qualifies(entry) ==
    levenshteinDistance(Candidate, entry) <= 2 /\ Len(entry) > 3

\* C1: an evaluated submission is judged correct if and only if the
\* normalized candidate equals some normalized accepted entry, or some
\* normalized accepted entry is within Levenshtein distance 2 of it and is
\* longer than 3; one qualifying entry among several is enough, and a
\* candidate farther than 2 from every entry is judged incorrect.
C1_CorrectIffExactOrClose ==
    Evaluated =>
        isCorrect = Some(\E entry \in Accepted :
                            entry = Candidate \/ Qualifies(entry))

\* C1 witness: two accepted entries, the candidate equals neither, exactly
\* one of them qualifies, and the submission was judged correct.
C1_Witness ==
    /\ Evaluated
    /\ Cardinality(Accepted) = 2
    /\ Candidate \notin Accepted
    /\ Cardinality({entry \in Accepted : Qualifies(entry)}) = 1
    /\ isCorrect = Some(TRUE)

\* C2: after an evaluated submission spellingMistake is true if and only if
\* the answer was judged correct and the normalized candidate equals none of
\* the normalized accepted entries.
C2_CloseMatchIffCorrectNotExact ==
    Evaluated =>
        spellingMistake = (isCorrect = Some(TRUE) /\ Candidate \notin Accepted)

\* C2 witness: the candidate equals one accepted entry and is within
\* distance 2 of another, longer than 3; spellingMistake is false.
C2_Witness ==
    /\ Evaluated
    /\ Candidate \in Accepted
    /\ \E entry \in Accepted : entry # Candidate /\ Qualifies(entry)
    /\ isCorrect = Some(TRUE)
    /\ spellingMistake = FALSE

\* C3: normalize is idempotent: normalizing what normalize returned gives
\* the same string.
C3_NormalizeIdempotent ==
    (callFn = "normalize" /\ callRet # Null) =>
        normalize(Val(callRet)) = Val(callRet)

\* C3 witness: normalize was applied to a string with punctuation between
\* two whitespace characters, and changed it.
C3_Witness ==
    /\ callFn = "normalize"
    /\ callRet # Null
    /\ Len(callArgs[1]) >= 3
    /\ \E i \in 2..(Len(callArgs[1]) - 1) :
          /\ callArgs[1][i] \in PUNCTUATION
          /\ callArgs[1][i - 1] \in WHITESPACE
          /\ callArgs[1][i + 1] \in WHITESPACE
    /\ Val(callRet) # callArgs[1]
    /\ Val(callRet) # <<>>

\* every string one insertion, deletion or substitution away from s, over
\* LevAlphabet, of length at most maxLen
OneEdit(s, maxLen) ==
    {SubSeq(s, 1, i - 1) \o SubSeq(s, i + 1, Len(s)) : i \in 1..Len(s)}
    \cup {[s EXCEPT ![i] = c] : i \in 1..Len(s), c \in LevAlphabet}
    \cup (IF Len(s) < maxLen
          THEN {SubSeq(s, 1, i) \o <<c>> \o SubSeq(s, i + 1, Len(s)) :
                    i \in 0..Len(s), c \in LevAlphabet}
          ELSE {})

\* the least number of single-character edits that lead from a string of
\* frontier to target, plus done; reached holds the strings already seen
RECURSIVE EditsNeeded(_, _, _, _, _)
EditsNeeded(reached, frontier, target, maxLen, done) ==
    IF target \in frontier THEN done
    ELSE LET next == UNION {OneEdit(s, maxLen) : s \in frontier} \ reached
         IN  EditsNeeded(reached \cup next, next, target, maxLen, done + 1)

\* the edit distance by its definition: the minimum number of insertions,
\* deletions and substitutions that turn a into b (strings one longer than
\* both may be passed through on the way)
EditDistance(a, b) ==
    EditsNeeded({a}, {a}, b, (IF Len(a) > Len(b) THEN Len(a) ELSE Len(b)) + 1, 0)

\* C4: levenshteinDistance(a, b) is the minimum number of single-character
\* insertions, deletions and substitutions that transform a into b.
C4_LevenshteinIsEditDistance ==
    (callFn = "levenshteinDistance" /\ callRet # Null) =>
        Val(callRet) = EditDistance(callArgs[1], callArgs[2])

\* C4 witness: two non-empty strings of different lengths at distance 2,
\* less than the number of positions at which they differ.
C4_Witness ==
    /\ callFn = "levenshteinDistance"
    /\ callRet = Some(2)
    /\ Len(callArgs[1]) = 3
    /\ Len(callArgs[2]) = 2
    /\ callArgs[1][1] # callArgs[2][1]
    /\ callArgs[1][2] # callArgs[2][2]

\* C5: when the normalized candidate equals the normalized form of an
\* accepted entry the submission is judged correct and is not flagged as a
\* spelling mistake, whatever the length of the entry.
C5_ExactMatchAnyLength ==
    (Evaluated /\ Candidate \in Accepted) =>
        isCorrect = Some(TRUE) /\ spellingMistake = FALSE

\* C5 witness: an accepted entry of normalized length 2, typed with another
\* casing, was accepted by exact match.
C5_Witness ==
    /\ Evaluated
    /\ Candidate \in Accepted
    /\ Len(Candidate) = 2
    /\ Accepted = {Candidate}
    /\ userAnswer \notin {correctAnswers(Val(currentQuestion))[1]}
    /\ isCorrect = Some(TRUE)
    /\ spellingMistake = FALSE

\* C6 as stated: a candidate that normalizes to the empty string never
\* exact-matches a non-empty accepted entry, and is flagged as a close match
\* (judged correct, spellingMistake set) when an accepted entry has
\* normalized length at most 2.
C6_Original ==
    (Evaluated /\ Candidate = <<>>) =>
        /\ \A entry \in Accepted : entry # <<>> => entry # Candidate
        /\ (\E entry \in Accepted : Len(entry) <= 2) =>
               (isCorrect = Some(TRUE) /\ spellingMistake = TRUE)

\* C6 as amended: a candidate that normalizes to the empty string is never
\* flagged as a close match, and is judged incorrect when every accepted
\* entry is non-empty after normalization.
C6_EmptyCandidateNeverClose ==
    (Evaluated /\ Candidate = <<>>) =>
        /\ spellingMistake = FALSE
        /\ (\A entry \in Accepted : entry # <<>>) => isCorrect = Some(FALSE)

\* C6 witness: a punctuation-only answer passed the non-blank guard and was
\* evaluated against an accepted entry of normalized length 2.
C6_Witness ==
    /\ Evaluated
    /\ userAnswer # <<>>
    /\ Candidate = <<>>
    /\ \E entry \in Accepted : Len(entry) = 2
    /\ isCorrect = Some(FALSE)

\* C7: a 2-character candidate at distance 2 from an accepted entry of
\* normalized length 4 is judged correct and flagged as a close match
\* (the candidate equalling no accepted entry); when every accepted entry
\* has normalized length 3 or less, no candidate other than the entries
\* themselves is judged correct.
C7_LengthGuardBoundary ==
    Evaluated =>
        /\ (/\ Len(Candidate) = 2
            /\ Candidate \notin Accepted
            /\ \E entry \in Accepted :
                  Len(entry) = 4 /\ levenshteinDistance(Candidate, entry) = 2)
           => (isCorrect = Some(TRUE) /\ spellingMistake = TRUE)
        /\ ((\A entry \in Accepted : Len(entry) <= 3) /\ Candidate \notin Accepted)
           => isCorrect = Some(FALSE)

\* C7 witness: the only accepted entry has normalized length 4, the
\* candidate has 2 characters and is at distance 2; it was accepted.
C7_Witness ==
    /\ Evaluated
    /\ Len(Candidate) = 2
    /\ \E entry \in Accepted :
          /\ Accepted = {entry}
          /\ Len(entry) = 4
          /\ levenshteinDistance(Candidate, entry) = 2
    /\ isCorrect = Some(TRUE)
    /\ spellingMistake = TRUE

\* C7 second witness: the only accepted entry has normalized length 3 and a
\* candidate one edit away was rejected.
C7_WitnessShort ==
    /\ Evaluated
    /\ \E entry \in Accepted :
          /\ Accepted = {entry}
          /\ Len(entry) = 3
          /\ levenshteinDistance(Candidate, entry) = 1
    /\ isCorrect = Some(FALSE)


(***************************************************************************)
(* Properties of the application (Spec)                                    *)
(***************************************************************************)
\* the messages the application has for a failed fetch
FailureMessages ==
    {HintFallback, NoInfoText, "Failed to fetch a hint.",
     "Failed to fetch country information."}

\* the screen shows a message about a failure, and no loading indicator
FailureShown ==
    /\ \E m \in FailureMessages : Text(m) \in renderContent
    /\ Spinner \notin renderContent

\* C8: every failure of a hint, info or image fetch is reported as a
\* user-visible message: once the failed hint has been delivered to the quiz
\* form, or the answer screen is reached after a failed info or image fetch,
\* the screen shows a textual message about the failure and no loading
\* indicator.
C8_FailuresReported ==
    /\ (QuizViewShown /\ gameStatus = "playing" /\ hint # Null
            /\ Val(prefetchedHintPromiseRef).failed)
       => FailureShown
    /\ (AnswerViewShown /\ Val(prefetchedInfoPromiseRef).failed)
       => FailureShown
    /\ (AnswerViewShown /\ Val(prefetchedImagePromiseRef).failed)
       => FailureShown

\* the matcher as the specification states it (section 4.1): exact, close,
\* correct = exact or close, closeMatch = correct and not exact
Verdict(candidate, accepted) ==
    LET nc == normalize(candidate)
        na == {normalize(accepted[i]) : i \in 1..Len(accepted)}
        exact == nc \in na
        close == \E e \in na : levenshteinDistance(nc, e) <= 2 /\ Len(e) > 3
    IN  [correct |-> exact \/ close, closeMatch |-> (exact \/ close) /\ ~exact]

\* the verdict on the screen came from Submit: handleGiveUp clears
\* userAnswer, handleAnswerSubmit needs it non-blank
VerdictOfSubmit ==
    /\ gameStatus \in {"loading_info", "answered"}
    /\ trim(userAnswer) # <<>>

\* C9: the verdict of a submission is a function of the typed answer and of
\* the accepted answers of the current question alone: in every state
\* reached, whatever the hints, the fetch results, the prefetched next
\* question and the earlier rounds, isCorrect and spellingMistake are the
\* values that function gives for userAnswer and the current question.
C9_VerdictFunctionOfInputs ==
    VerdictOfSubmit =>
        LET v == Verdict(userAnswer, correctAnswers(Val(currentQuestion)))
        IN  isCorrect = Some(v.correct) /\ spellingMistake = v.closeMatch

\* C9 witness: a later round, a hint on the form, a failed info fetch and a
\* prefetched next question held; the answer was accepted as a close match.
C9_Witness ==
    /\ VerdictOfSubmit
    /\ gameStatus = "answered"
    /\ fetchCount >= 3
    /\ hint # Null
    /\ Val(prefetchedInfoPromiseRef).failed
    /\ nextQuestion # Null
    /\ isCorrect = Some(TRUE)
    /\ spellingMistake = TRUE

\* the player is answering the current question
Answering == gameStatus \in {"playing", "loading_hint"}

\* the hint and info fetches of the current question have been started
CurrentPrefetched ==
    /\ currentQuestion # Null
    /\ prefetchedHintPromiseRef # Null
    /\ prefetchedInfoPromiseRef # Null
    /\ Val(prefetchedHintPromiseRef).question = Val(currentQuestion)
    /\ Val(prefetchedInfoPromiseRef).question = Val(currentQuestion)

\* C10 as stated: while the player is answering, the hint and info fetches
\* of the current question have been started and a fetch of the next
\* question is in flight or its result is held in nextQuestion.
C10_Original ==
    Answering =>
        CurrentPrefetched /\ (nextFetches > 0 \/ nextQuestion # Null)

\* C10 as amended: while the player is answering, the hint and info fetches
\* of the current question have been started; the fetch of the next question
\* is started exactly when the game moves to loading_info (Submit or Give
\* Up), never while the question is being answered.
C10_PrefetchTiming ==
    /\ [](Answering => CurrentPrefetched)
    /\ [][(nextFetches' > nextFetches)
            <=> (gameStatus # "loading_info" /\ gameStatus' = "loading_info")]_vars

\* C10 witness: a question of a later round is being answered, its hint and
\* info fetches started, with no next question fetched or in flight.
C10_Witness ==
    /\ Answering
    /\ CurrentPrefetched
    /\ fetchCount >= 2
    /\ nextFetches = 0
    /\ nextQuestion = Null


\* the country of the current question
CurrentCountry == Val(currentQuestion).country.name

\* C11: whatever the order of Next Question clicks, next-question prefetch
\* completions and info, image and hint fetch completions, the country info,
\* sources and image on the answer screen, and the hint on the quiz form,
\* were fetched for the current question: nothing requested for an earlier
\* or a later question is displayed with it.
C11_DisplayedDetailsOfCurrentQuestion ==
    /\ AnswerViewShown =>
          /\ info # Null => Val(info).about = CurrentCountry
          /\ \A i \in 1..Len(sources) : sources[i].about = CurrentCountry
          /\ countryImage # Null => Val(countryImage).about = CurrentCountry
    /\ (QuizViewShown /\ hint # Null /\ Val(hint).about # Null) =>
          Val(Val(hint).about) = Val(currentQuestion)

\* C11 witness: the answer screen of a later question shows info, sources
\* and an image, the hint was shown, a prefetched question about another
\* country is held and another next-question fetch is still in flight.
C11_Witness ==
    /\ AnswerViewShown
    /\ Len(shownIds) >= 2
    /\ info # Null
    /\ sources # <<>>
    /\ countryImage # Null
    /\ hint # Null
    /\ Val(hint).about # Null
    /\ nextQuestion # Null
    /\ Val(nextQuestion).country.name # CurrentCountry
    /\ nextFetches > 0


\* C12: loading states are transient.  Submit of a non-blank answer and Give
\* Up move gameStatus to loading_info, and a hint request moves it to
\* loading_hint; provided every started fetch settles, loading_info leads to
\* answered and loading_hint leads back to playing, whether the fetches
\* succeed or fail; in loading_hint and loading_info no Submit, Give Up or
\* hint request can be taken.
C12_LoadingStatesTransient ==
    /\ [][(handleAnswerSubmit \/ handleGiveUp) => gameStatus' = "loading_info"]_vars
    /\ [][handleHintRequest => gameStatus' = "loading_hint"]_vars
    /\ [](gameStatus \in {"loading_hint", "loading_info"} =>
            /\ ~ENABLED handleAnswerSubmit
            /\ ~ENABLED handleGiveUp
            /\ ~ENABLED handleHintRequest)
    /\ (gameStatus = "loading_info") ~> (gameStatus = "answered")
    /\ (gameStatus = "loading_hint") ~> (gameStatus = "playing")

\* C12 witness: the answer screen was reached after a submission although
\* the info fetch failed, and the hint came back as the fallback after a
\* failed hint fetch.
C12_Witness ==
    /\ gameStatus = "answered"
    /\ trim(userAnswer) # <<>>
    /\ Val(prefetchedInfoPromiseRef).failed
    /\ hint # Null
    /\ Val(prefetchedHintPromiseRef).failed
    /\ Val(hint).text = HintFallback


\* the Next Question button is pressed (the only step that leaves answered)
NextPressed == gameStatus = "answered" /\ gameStatus' # "answered"

\* no object occurs twice in the history of current questions
EachShownOnce ==
    \A i, j \in 1..Len(shownIds) : shownIds[i] = shownIds[j] => i = j

\* C13: when Next Question is pressed while a prefetched nextQuestion is
\* held, that question becomes currentQuestion, nextQuestion is cleared and
\* gameStatus goes directly to playing; when none is held the game goes to
\* loading_question, which is left only for playing or error and, once the
\* country fetch settles, is left.  Under every interleaving each question
\* object becomes the current question at most once.
C13_NextQuestionHandOver ==
    /\ [][(NextPressed /\ nextQuestion # Null) =>
            /\ currentQuestion' = nextQuestion
            /\ nextQuestion' = Null
            /\ gameStatus' = "playing"]_vars
    /\ [][(NextPressed /\ nextQuestion = Null) =>
            gameStatus' = "loading_question"]_vars
    /\ [][(gameStatus = "loading_question" /\ gameStatus' # "loading_question") =>
            gameStatus' \in {"playing", "error"}]_vars
    /\ (gameStatus = "loading_question" /\ fetchCount > 0)
          ~> (gameStatus \in {"playing", "error"})
    /\ []EachShownOnce

\* C13 witness: a prefetch completed only after the player had advanced
\* through loading_question; the question it delivered was held over that
\* round and has now become the third current question, nextQuestion cleared.
C13_Witness ==
    /\ gameStatus = "playing"
    /\ Len(shownIds) = 3
    /\ shownIds[3] < shownIds[2]
    /\ Val(currentQuestion).id = shownIds[3]
    /\ nextQuestion = Null

====
